---- MODULE Spec2Model ----
(***************************************************************************)
(* Model of nirah's src/main.cpp: the Unique<PalType> owner of a sized,    *)
(* placement-constructed PAL object, and the run of main() that boots a    *)
(* device, records one compute dispatch and reads the result back.         *)
(*                                                                         *)
(* Two specifications:                                                     *)
(*   SpecUnique  any sequence of constructions, move constructions, move   *)
(*               assignments and destructions over a few owner slots, for  *)
(*               arbitrary sizing and construction operations;             *)
(*   Spec        main(), step by step, every device-layer result drawn     *)
(*               from the result codes.                                    *)
(* Both append every call made to the allocator and to the device layer to *)
(* `log`, in program order.                                                *)
(***************************************************************************)
EXTENDS Integers, Sequences, FiniteSets, TLC

VARIABLES
    log,        \* calls made so far, in order: Seq of [op, a, r, out]
    allocated,  \* heap: addresses returned by malloc and not yet freed
    nblocks,    \* number of malloc calls made so far
    exc,        \* the exception in flight or last raised: [kind, result]
    ptr,        \* owner -> Unique::ptr
    life,       \* owner -> "none" (no object), "live", "dead" (destructor ran)
    lastOp,     \* SpecUnique: the operation the last step applied
    nctor,      \* SpecUnique: constructor invocations so far
    nmoves,     \* SpecUnique: move operations so far
    pc,         \* Spec: position in main()
    exitStatus, \* Spec: "running", "success" (return EXIT_SUCCESS), "abnormal"
    mapped,     \* Spec: buffers currently host-mapped (Map returned no error)
    cmdState,   \* Spec: record state of the command buffer
    devState,   \* Spec: "created", "committed", "finalized"
    devCount,   \* Spec: device_count written by EnumerateDevices
    devIdx,     \* Spec: loop variable i of select_device
    props,      \* Spec: the DeviceProperties main() queried
    device,     \* Spec: the device pointer select_device returned
    va,         \* Spec: buffer -> Desc().gpuVirtAddr
    mem,        \* Spec: buffer -> contents of the GPU memory
    cmds,       \* the commands recorded into the command buffer
    n_items,    \* the item count the dispatch is sized for
    readback    \* Spec: the items the read-back loop printed

vars == <<log, allocated, nblocks, exc, ptr, life, lastOp, nctor, nmoves,
          pc, exitStatus, mapped, cmdState, devState, devCount, devIdx, props,
          device, va, mem, cmds, n_items, readback>>

heapVars == <<log, allocated, nblocks, exc, ptr, life>>
harnessVars == <<lastOp, nctor, nmoves>>
mainVars == <<pc, exitStatus, mapped, cmdState, devState, devCount, devIdx, props,
              device, va, mem, cmds, n_items, readback>>
dataVars == <<device, va, mem, cmds, n_items, readback>>

----------------------------------------------------------------------------
(* Bounds of the model *)

NumOwners == 2     \* owner slots of SpecUnique
MaxCtors == 2      \* constructor invocations explored by SpecUnique
MaxMoves == 2      \* move constructions + move assignments explored

----------------------------------------------------------------------------
(* Result codes and addresses *)

Success == 0
Null == 0

\* A Pal::gpusize virtual address, 64 bits wide: its high and low 32-bit words.
Va(hi, lo) == [hi |-> hi, lo |-> lo]
NoVa == Va(0, 0)
NItems == 16
GroupSize == 8
SizeofFloat == 4
BlockAlign == 16
HandleOffset == 8

\* Util::Result values a device-layer call can produce: Success or one of two
\* distinct error codes.
ErrorCodes == {-2, -1}
ResultCodes == ErrorCodes \cup {Success}

\* Util::IsErrorResult as used by checkResult and the constructor.
IsErrorResult(result) == result < Success

\* The address malloc returns for its k-th call: fresh, non-null, aligned.
malloc(k) == k * BlockAlign

\* Where a construction operation may place the handle inside the block it
\* was given: at the block address, or past it.
Offsets == {0, HandleOffset}

\* One logged call: operation, address it was applied to, result code,
\* address it produced.
Ev(op, a, r, out) == [op |-> op, a |-> a, r |-> r, out |-> out]

NoException == [kind |-> "none", result |-> Success]
PalError(result) == [kind |-> "PalError", result |-> result]
runtime_error == [kind |-> "runtime_error", result |-> Success]

\* checkResult(result): the events it adds (a throw, or nothing).
checkResult_unchecked(result) == << >>
checkResult(result) ==
    IF IsErrorResult(result) THEN <<Ev("throw", Null, result, Null)>> ELSE << >>

----------------------------------------------------------------------------
(* Unique<PalType> *)

\* The constructor's failure path after create_fn returned an error.
CtorOnCreateError_leak(memory, result) == <<Ev("throw", Null, result, Null)>>
CtorOnCreateError(memory, result) ==
    <<Ev("free", memory, Success, Null), Ev("throw", Null, result, Null)>>

\* The address the constructor keeps in this->ptr.
CtorStored_block(memory, result_ptr) == memory
CtorStored(memory, result_ptr) == result_ptr

\* Unique(size_fn, create_fn) run with malloc's k-th block, size_fn setting
\* sizeRes, create_fn returning createRes and a handle at memory + off.
\* Yields the calls made, in order, and the pointer stored (Null when the
\* constructor throws and no object comes to exist).
UniqueCtor(k, sizeRes, createRes, off) ==
    LET memory == malloc(k)
        result_ptr == memory + off
        sized == <<Ev("size_fn", Null, sizeRes, Null)>>
        placed == <<Ev("malloc", Null, Success, memory),
                    Ev("create_fn", memory, createRes,
                       IF IsErrorResult(createRes) THEN Null ELSE result_ptr)>>
    IN  IF checkResult(sizeRes) # << >>
        THEN [events |-> sized \o checkResult(sizeRes), ptr |-> Null]
        ELSE IF IsErrorResult(createRes)
        THEN [events |-> sized \o placed \o CtorOnCreateError(memory, createRes),
              ptr |-> Null]
        ELSE [events |-> sized \o placed, ptr |-> CtorStored(memory, result_ptr)]

\* Unique(Unique&& other): <<this->ptr, other.ptr>> afterwards.
MoveCtorPtrs_keepsSource(otherPtr) == <<otherPtr, otherPtr>>
MoveCtorPtrs(otherPtr) == <<otherPtr, Null>>

\* operator=(Unique&& other): <<this->ptr, other.ptr>> afterwards.
MoveAssignPtrs_overwrite(thisPtr, otherPtr) == <<otherPtr, Null>>
MoveAssignPtrs(thisPtr, otherPtr) == <<otherPtr, thisPtr>>

\* ~Unique(): the calls the destructor makes for a stored pointer p.
UniqueDtor_freeFirst(p) ==
    IF p # Null
    THEN <<Ev("free", p, Success, Null), Ev("Destroy", p, Success, Null)>>
    ELSE << >>
UniqueDtor(p) ==
    IF p # Null
    THEN <<Ev("Destroy", p, Success, Null), Ev("free", p, Success, Null)>>
    ELSE << >>

\* The heap after `events`: malloc adds the block it returned, free removes
\* the address it was given (an address that is not allocated removes nothing).
RECURSIVE HeapAfter(_, _)
HeapAfter(heap, events) ==
    IF events = << >> THEN heap
    ELSE LET e == Head(events)
         IN  HeapAfter(IF e.op = "malloc" THEN heap \cup {e.out}
                       ELSE IF e.op = "free" THEN heap \ {e.a}
                       ELSE heap,
                       Tail(events))

\* Number of malloc calls among `events`.
Mallocs(events) == Cardinality({i \in DOMAIN events : events[i].op = "malloc"})

\* Whether `events` ends in a throw, and the exception then in flight.
Throws(events) ==
    events # << >> /\ events[Len(events)].op \in {"throw", "throw_runtime_error"}
Raised(events) ==
    IF ~Throws(events) THEN NoException
    ELSE IF events[Len(events)].op = "throw" THEN PalError(events[Len(events)].r)
    ELSE runtime_error

----------------------------------------------------------------------------
(* SpecUnique: owners of one PalType, used in any order *)

Slots == 1..NumOwners

MainInit ==
    /\ pc = "idle"
    /\ exitStatus = "running"
    /\ mapped = {}
    /\ cmdState = "Unrecorded"
    /\ devState = "created"
    /\ devCount = 0
    /\ devIdx = 0
    /\ props = [engineCount |-> 0, queueSupport |-> {}]
    /\ device = Null
    /\ va = [b \in {"input", "output", "table"} |-> NoVa]
    /\ mem = [b \in {"input", "output", "table"} |-> << >>]
    /\ cmds = << >>
    /\ n_items = NItems
    /\ readback = << >>

InitUnique ==
    /\ log = << >>
    /\ allocated = {}
    /\ nblocks = 0
    /\ exc = NoException
    /\ ptr = [o \in Slots |-> Null]
    /\ life = [o \in Slots |-> "none"]
    /\ lastOp = [op |-> "none", dst |-> 0, src |-> 0]
    /\ nctor = 0
    /\ nmoves = 0
    /\ MainInit

\* Unique<T> o(size_fn, create_fn); an exception leaves no object behind.
Construct(o, sizeRes, createRes, off) ==
    /\ life[o] = "none"
    /\ nctor < MaxCtors
    /\ LET c == UniqueCtor(nblocks + 1, sizeRes, createRes, off)
       IN  /\ log' = log \o c.events
           /\ allocated' = HeapAfter(allocated, c.events)
           /\ nblocks' = nblocks + Mallocs(c.events)
           /\ exc' = Raised(c.events)
           /\ ptr' = [ptr EXCEPT ![o] = c.ptr]
           /\ life' = [life EXCEPT ![o] = IF Throws(c.events) THEN "none" ELSE "live"]
    /\ nctor' = nctor + 1
    /\ lastOp' = [op |-> "Construct", dst |-> o, src |-> 0]
    /\ UNCHANGED <<nmoves, mainVars>>

\* Unique<T> o(std::move(s));
MoveConstruct(o, s) ==
    /\ life[o] = "none"
    /\ life[s] = "live"
    /\ nmoves < MaxMoves
    /\ LET p == MoveCtorPtrs(ptr[s])
       IN  ptr' = [ptr EXCEPT ![o] = p[1], ![s] = p[2]]
    /\ life' = [life EXCEPT ![o] = "live"]
    /\ exc' = NoException
    /\ nmoves' = nmoves + 1
    /\ lastOp' = [op |-> "MoveConstruct", dst |-> o, src |-> s]
    /\ UNCHANGED <<log, allocated, nblocks, nctor, mainVars>>

\* d = std::move(s);
MoveAssign(d, s) ==
    /\ life[d] = "live"
    /\ life[s] = "live"
    /\ nmoves < MaxMoves
    /\ LET p == MoveAssignPtrs(ptr[d], ptr[s])
       IN  ptr' = [o \in Slots |-> IF o = s THEN p[2] ELSE IF o = d THEN p[1] ELSE ptr[o]]
    /\ exc' = NoException
    /\ nmoves' = nmoves + 1
    /\ lastOp' = [op |-> "MoveAssign", dst |-> d, src |-> s]
    /\ UNCHANGED <<log, allocated, nblocks, life, nctor, mainVars>>

\* o goes out of scope.
Destruct(o) ==
    /\ life[o] = "live"
    /\ LET d == UniqueDtor(ptr[o])
       IN  /\ log' = log \o d
           /\ allocated' = HeapAfter(allocated, d)
    /\ life' = [life EXCEPT ![o] = "dead"]
    /\ exc' = NoException
    /\ lastOp' = [op |-> "Destruct", dst |-> o, src |-> 0]
    /\ UNCHANGED <<nblocks, ptr, nctor, nmoves, mainVars>>

NextUnique ==
    \/ \E o \in Slots, sizeRes \in ResultCodes, createRes \in ResultCodes, off \in Offsets :
          Construct(o, sizeRes, createRes, off)
    \/ \E o \in Slots, s \in Slots : MoveConstruct(o, s)
    \/ \E d \in Slots, s \in Slots : MoveAssign(d, s)
    \/ \E o \in Slots : Destruct(o)

SpecUnique == InitUnique /\ [][NextUnique]_vars

----------------------------------------------------------------------------
(* Spec: main() *)

MaxDevices == 2          \* devices EnumerateDevices reports, at most
MaxEngines == 1          \* compute engines a device reports, at most
RequestedComputeEngines == 1

\* The Unique locals of main(), in declaration order.
Locals_platformLate ==
    <<"queue", "platform", "cmda", "cmd_buf", "pipeline", "input", "output", "table">>
Locals ==
    <<"platform", "queue", "cmda", "cmd_buf", "pipeline", "input", "output", "table">>

LocalSet == {Locals[i] : i \in DOMAIN Locals}

\* The locals that own GPU memory.
Buffers == {"input", "output", "table"}

\* GPU virtual addresses the device may give a buffer.
GpuVas == {Va(0, 4096), Va(1, 4096), Va(1, 8192)}

\* The statements of main(), in program order; pc names the next one.
Program_submitFirst ==
    <<"create_platform", "enumerate_devices", "print_device", "get_properties",
      "commit_settings", "finalize", "create_queue", "create_cmd_allocator",
      "create_cmd_buffer", "create_pipeline", "create_input", "create_output",
      "map_input", "map_output", "fill", "unmap_input", "unmap_output",
      "create_table", "map_table", "write_table", "unmap_table",
      "begin", "submit", "record", "end", "wait_idle",
      "map_readback", "read_back", "unmap_readback", "return">>
Program_queueBeforeFinalize ==
    <<"create_platform", "enumerate_devices", "print_device", "get_properties",
      "commit_settings", "create_queue", "finalize", "create_cmd_allocator",
      "create_cmd_buffer", "create_pipeline", "create_input", "create_output",
      "map_input", "map_output", "fill", "unmap_input", "unmap_output",
      "create_table", "map_table", "write_table", "unmap_table",
      "begin", "record", "end", "submit", "wait_idle",
      "map_readback", "read_back", "unmap_readback", "return">>
Program_unmapLate ==
    <<"create_platform", "enumerate_devices", "print_device", "get_properties",
      "commit_settings", "finalize", "create_queue", "create_cmd_allocator",
      "create_cmd_buffer", "create_pipeline", "create_input", "create_output",
      "map_input", "map_output", "fill", "unmap_input", "unmap_output",
      "create_table", "map_table", "write_table",
      "begin", "record", "end", "submit", "unmap_table", "wait_idle",
      "map_readback", "read_back", "unmap_readback", "return">>
Program ==
    <<"create_platform", "enumerate_devices", "print_device", "get_properties",
      "commit_settings", "finalize", "create_queue", "create_cmd_allocator",
      "create_cmd_buffer", "create_pipeline", "create_input", "create_output",
      "map_input", "map_output", "fill", "unmap_input", "unmap_output",
      "create_table", "map_table", "write_table", "unmap_table",
      "begin", "record", "end", "submit", "wait_idle",
      "map_readback", "read_back", "unmap_readback", "return">>

\* The statement after `label`.
After(label) ==
    LET i == CHOOSE j \in DOMAIN Program : Program[j] = label
    IN  Program[i + 1]

\* The address of devices[i] (the platform owns the devices; main() holds raw
\* pointers to them).
devices(i) == i + 1

\* Where PAL's Create* calls put the object: at the placement address.
PalOffset == 0

\* Engine capability masks a device may report for the compute engine type.
QueueMasks == SUBSET {"Universal", "Compute"}
PropsSet == [engineCount : 0..MaxEngines, queueSupport : QueueMasks]

\* checkResult(obj->op()): the call and what checkResult adds.
DeviceCall(op, a, r) == <<Ev(op, a, r, Null)>> \o checkResult(r)
\* obj->op() whose result is dropped, or that returns none.
PlainCall(op, a, r) == <<Ev(op, a, r, Null)>>

Init ==
    /\ log = << >>
    /\ allocated = {}
    /\ nblocks = 0
    /\ exc = NoException
    /\ ptr = [o \in LocalSet |-> Null]
    /\ life = [o \in LocalSet |-> "none"]
    /\ lastOp = [op |-> "none", dst |-> 0, src |-> 0]
    /\ nctor = 0
    /\ nmoves = 0
    /\ pc = Program[1]
    /\ exitStatus = "running"
    /\ mapped = {}
    /\ cmdState = "Unrecorded"
    /\ devState = "created"
    /\ devCount = 0
    /\ devIdx = 0
    /\ props = [engineCount |-> 0, queueSupport |-> {}]
    /\ device = Null
    /\ va = [b \in Buffers |-> NoVa]
    /\ mem = [b \in Buffers |-> << >>]
    /\ cmds = << >>
    /\ n_items = NItems
    /\ readback = << >>

\* One statement at `from` making the calls `events`: control moves to the
\* next statement, or the exception leaves main().
Statement(from, events) ==
    /\ pc = from
    /\ log' = log \o events
    /\ exc' = Raised(events)
    /\ pc' = IF Throws(events) THEN "throw" ELSE After(from)

\* auto o = create_*(...): Unique<T>(size_fn, create_fn), returned by value
\* into the local (no move is made).
CreateLocal(o, from, pre, sizeRes, createRes) ==
    LET c == UniqueCtor(nblocks + 1, sizeRes, createRes, PalOffset)
        events == IF Throws(pre) THEN pre ELSE pre \o c.events
    IN  /\ Statement(from, events)
        /\ allocated' = HeapAfter(allocated, events)
        /\ nblocks' = nblocks + Mallocs(events)
        /\ ptr' = [ptr EXCEPT ![o] = IF Throws(events) THEN Null ELSE c.ptr]
        /\ life' = [life EXCEPT ![o] = IF Throws(events) THEN "none" ELSE "live"]
        /\ UNCHANGED <<harnessVars, exitStatus, mapped, cmdState, devState,
                       devCount, devIdx, props, device, mem, cmds, n_items,
                       readback>>

\* create_buffer(device, size, va_range): the owner, and the GPU virtual
\* address the device gave the memory.
CreateBuffer(o, from, sizeRes, createRes, addr) ==
    /\ CreateLocal(o, from, << >>, sizeRes, createRes)
    /\ va' = IF life'[o] = "live" THEN [va EXCEPT ![o] = addr] ELSE va

\* create_platform(): GetPlatformSize() reports no result, so sizing cannot fail.
CreatePlatform(createRes) ==
    /\ CreateLocal("platform", "create_platform", << >>, Success, createRes)
    /\ UNCHANGED va

\* select_device(): EnumerateDevices and the device_count == 0 check.
EnumerateDevices(r, n) ==
    LET call == DeviceCall("EnumerateDevices", ptr["platform"], r)
        events == IF ~Throws(call) /\ n = 0
                  THEN call \o <<Ev("throw_runtime_error", Null, Success, Null)>>
                  ELSE call
    IN  /\ Statement("enumerate_devices", events)
        /\ devCount' = IF Throws(call) THEN 0 ELSE n
        /\ devIdx' = 0
        /\ UNCHANGED <<allocated, nblocks, ptr, life, harnessVars, exitStatus,
                       mapped, cmdState, devState, props,
                       dataVars>>

\* select_device(): the device returned, given device_count.
Selected_last(count) == devices(count - 1)
Selected(count) == devices(0)

\* select_device(): one turn of the loop printing devices[i]'s properties;
\* after the last turn devices[0] is returned.
\* p: the properties read into the loop's local, printed and dropped.
PrintDevice(r, p) ==
    LET events == DeviceCall("GetProperties", devices(devIdx), r)
    IN  /\ pc = "print_device"
        /\ devIdx < devCount
        /\ log' = log \o events
        /\ exc' = Raised(events)
        /\ devIdx' = devIdx + 1
        /\ pc' = IF Throws(events) THEN "throw"
                 ELSE IF devIdx + 1 < devCount THEN "print_device"
                 ELSE After("print_device")
        /\ device' = IF ~Throws(events) /\ devIdx + 1 >= devCount
                     THEN Selected(devCount)
                     ELSE device
        /\ UNCHANGED <<allocated, nblocks, ptr, life, harnessVars, exitStatus,
                       mapped, cmdState, devState, devCount, props,
                   va, mem, cmds, n_items, readback>>

\* checkResult(device->GetProperties(&props));
GetProperties(r, p) ==
    LET events == DeviceCall("GetProperties", device, r)
    IN  /\ Statement("get_properties", events)
        /\ props' = IF Throws(events) THEN props ELSE p
        /\ UNCHANGED <<allocated, nblocks, ptr, life, harnessVars, exitStatus,
                       mapped, cmdState, devState, devCount, devIdx,
                       dataVars>>

\* checkResult(device->CommitSettingsAndInit());
CommitSettingsAndInit(r) ==
    LET events == DeviceCall("CommitSettingsAndInit", device, r)
    IN  /\ Statement("commit_settings", events)
        /\ devState' = IF IsErrorResult(r) THEN devState ELSE "committed"
        /\ UNCHANGED <<allocated, nblocks, ptr, life, harnessVars, exitStatus,
                       mapped, cmdState, devCount, devIdx, props,
                       dataVars>>

\* checkResult(device->Finalize(finalize_info));
Finalize(r) ==
    LET events == <<Ev("Finalize", device, r, RequestedComputeEngines)>>
                  \o checkResult(r)
    IN  /\ Statement("finalize", events)
        /\ devState' = IF IsErrorResult(r) THEN devState ELSE "finalized"
        /\ UNCHANGED <<allocated, nblocks, ptr, life, harnessVars, exitStatus,
                       mapped, cmdState, devCount, devIdx, props,
                       dataVars>>

\* .engineIndex = 0 of the Pal::QueueCreateInfo.
QueueEngineIndex == 0

\* create_queue's two checks of the compute engine's properties.
QueueChecks_countOnly(p) ==
    IF p.engineCount = 0
    THEN <<Ev("throw_runtime_error", Null, Success, Null)>>
    ELSE << >>
QueueChecks(p) ==
    IF p.engineCount = 0 \/ "Compute" \notin p.queueSupport
    THEN <<Ev("throw_runtime_error", Null, Success, Null)>>
    ELSE << >>

\* create_queue(device, props): the two property checks, the create info,
\* then the owner.
CreateQueue(sizeRes, createRes) ==
    LET checks == QueueChecks(props)
        pre == IF Throws(checks) THEN checks
               ELSE <<Ev("QueueCreateInfo", device, Success, QueueEngineIndex)>>
    IN  /\ CreateLocal("queue", "create_queue", pre, sizeRes, createRes)
        /\ UNCHANGED va

CreateCmdAllocator(sizeRes, createRes) ==
    /\ CreateLocal("cmda", "create_cmd_allocator", << >>, sizeRes, createRes)
    /\ UNCHANGED va

CreateCmdBuffer(sizeRes, createRes) ==
    /\ CreateLocal("cmd_buf", "create_cmd_buffer", << >>, sizeRes, createRes)
    /\ UNCHANGED va

CreatePipeline(sizeRes, createRes) ==
    /\ CreateLocal("pipeline", "create_pipeline", << >>, sizeRes, createRes)
    /\ UNCHANGED va

CreateInput(sizeRes, createRes, addr) ==
    /\ addr \notin {va[b] : b \in Buffers}
    /\ CreateBuffer("input", "create_input", sizeRes, createRes, addr)

CreateOutput(sizeRes, createRes, addr) ==
    /\ addr \notin {va[b] : b \in Buffers}
    /\ CreateBuffer("output", "create_output", sizeRes, createRes, addr)

\* auto table = create_buffer(device, buffer_view_size * 2, DescriptorTable);
CreateTable(sizeRes, createRes, addr) ==
    /\ addr \notin {va[b] : b \in Buffers}
    /\ CreateBuffer("table", "create_table", sizeRes, createRes, addr)

\* checkResult(buf->Map(&data)) at statement `from`, after the calls `pre`.
MapBuffer(o, from, pre, r) ==
    LET events == pre \o DeviceCall("Map", ptr[o], r)
    IN  /\ Statement(from, events)
        /\ mapped' = IF IsErrorResult(r) THEN mapped ELSE mapped \cup {o}
        /\ UNCHANGED <<allocated, nblocks, ptr, life, harnessVars, exitStatus,
                       cmdState, devState, devCount, devIdx, props,
                       dataVars>>

\* checkResult(buf->Unmap()) at statement `from`.
UnmapBuffer(o, from, r) ==
    LET events == DeviceCall("Unmap", ptr[o], r)
    IN  /\ Statement(from, events)
        /\ mapped' = IF IsErrorResult(r) THEN mapped ELSE mapped \ {o}
        /\ UNCHANGED <<allocated, nblocks, ptr, life, harnessVars, exitStatus,
                       cmdState, devState, devCount, devIdx, props,
                       dataVars>>

\* A statement that touches neither the heap nor the device-side state.
HostStatement(from, events) ==
    /\ Statement(from, events)
    /\ UNCHANGED <<allocated, nblocks, ptr, life, harnessVars, exitStatus,
                   mapped, cmdState, devState, devCount, devIdx, props,
                   device, va, n_items>>

\* The two Desc() prints, then checkResult(input->Map(&input_data));
MapInput(r) ==
    MapBuffer("input", "map_input",
              PlainCall("Desc", ptr["input"], Success)
                 \o PlainCall("Desc", ptr["output"], Success), r)

MapOutput(r) == MapBuffer("output", "map_output", << >>, r)

\* Pal::gpusize size = n_items * sizeof(float);
Size_items(n) == n
Size(n) == n * SizeofFloat

\* input_items[i] = static_cast<float>(i); output_items[i] = 0; for i < n
\* (item i is element i + 1 of the sequence).
InputItems(n) == [i \in 1..n |-> i - 1]
OutputItems(n) == [i \in 1..n |-> 0]

\* The loop writing input_items[i] and output_items[i].
Fill ==
    /\ HostStatement("fill", PlainCall("host_write", ptr["input"], Success)
                                \o PlainCall("host_write", ptr["output"], Success))
    /\ mem' = [mem EXCEPT !["input"] = InputItems(n_items),
                          !["output"] = OutputItems(n_items)]
    /\ UNCHANGED <<cmds, readback>>

UnmapInput(r) == UnmapBuffer("input", "unmap_input", r)
UnmapOutput(r) == UnmapBuffer("output", "unmap_output", r)

MapTable(r) ==
    MapBuffer("table", "map_table", PlainCall("Desc", ptr["table"], Success), r)

\* Pal::BufferViewInfo info[]: the two records, slot 0 first.
BufferView(gpuAddr, range) ==
    [gpuAddr |-> gpuAddr, range |-> range, stride |-> 0,
     swizzledFormat |-> "UndefinedSwizzledFormat"]
BufferViews_inputFirst(outputAddr, inputAddr, range) ==
    <<BufferView(inputAddr, range), BufferView(outputAddr, range)>>
BufferViews(outputAddr, inputAddr, range) ==
    <<BufferView(outputAddr, range), BufferView(inputAddr, range)>>

\* The two BufferViewInfo records and CreateUntypedBufferViewSrds(2, info, data).
WriteTable ==
    /\ HostStatement("write_table",
                     PlainCall("Desc", ptr["output"], Success)
                        \o PlainCall("Desc", ptr["input"], Success)
                        \o PlainCall("CreateUntypedBufferViewSrds", device, Success)
                        \o PlainCall("host_write", ptr["table"], Success))
    /\ mem' = [mem EXCEPT !["table"] =
                  BufferViews(va["output"], va["input"], Size(n_items))]
    /\ UNCHANGED <<cmds, readback>>

UnmapTable(r) == UnmapBuffer("table", "unmap_table", r)

\* A checked call on the command buffer or the queue that moves the command
\* buffer to `state` when it reports no error.
CmdTransition(from, op, a, r, state) ==
    LET events == DeviceCall(op, a, r)
    IN  /\ Statement(from, events)
        /\ cmdState' = IF IsErrorResult(r) THEN cmdState ELSE state
        /\ UNCHANGED <<allocated, nblocks, ptr, life, harnessVars, exitStatus,
                       mapped, devState, devCount, devIdx, props,
                   device, va, cmds, n_items, readback>>

\* checkResult(cmd_buf->Begin({}));
Begin(r) ==
    /\ CmdTransition("begin", "Begin", ptr["cmd_buf"], r, "Recording")
    /\ UNCHANGED mem

\* user_data[0] = table->Desc().gpuVirtAddr & 0xFFFFFFFF;
Low32(x) == x.lo

\* cmd_buf->CmdDispatch(n_items / 8, 1, 1);
GroupCount_roundUp(n) == (n + GroupSize - 1) \div GroupSize
GroupCount(n) == n \div GroupSize
DispatchCmd(n) == [cmd |-> "Dispatch", arg |-> <<GroupCount(n), 1, 1>>]

\* CmdBindPipeline, CmdSetUserData, CmdDispatch: none returns a result.
Record ==
    /\ HostStatement("record",
                     PlainCall("Desc", ptr["table"], Success)
                        \o PlainCall("CmdBindPipeline", ptr["cmd_buf"], Success)
                        \o PlainCall("CmdSetUserData", ptr["cmd_buf"], Success)
                        \o PlainCall("CmdDispatch", ptr["cmd_buf"], Success))
    /\ cmds' = cmds \o <<[cmd |-> "BindPipeline", arg |-> <<ptr["pipeline"]>>],
                          [cmd |-> "SetUserData", arg |-> <<0, 1, Low32(va["table"])>>],
                          DispatchCmd(n_items)>>
    /\ UNCHANGED <<mem, readback>>

\* checkResult(cmd_buf->End());
End(r) ==
    /\ CmdTransition("end", "End", ptr["cmd_buf"], r, "Recorded")
    /\ UNCHANGED mem

\* submit_cmd_buffer(queue.ptr, cmd_buf.ptr);
Submit(r) ==
    /\ CmdTransition("submit", "Submit", ptr["queue"], r, "Submitted")
    /\ UNCHANGED mem

\* The items thread group g of the kernel works on: GroupSize items each.
GroupItems(g) == (g * GroupSize)..(g * GroupSize + GroupSize - 1)
Dispatched(groups) == UNION {GroupItems(g) : g \in 0..(groups - 1)}

\* The test kernel: each dispatched thread group copies its items from the
\* view in table slot 1 to the view in table slot 0, inside the views' range.
KernelCopy(src, dst, groups, range) ==
    [i \in 1..Len(dst) |->
        IF (i - 1) \in Dispatched(groups) /\ i * SizeofFloat <= range /\ i <= Len(src)
        THEN src[i] ELSE dst[i]]

\* The device executing the submitted commands `c` on memory m, the buffers
\* at the virtual addresses v.
Execute(m, c, v) ==
    LET disp == {k \in DOMAIN c : c[k].cmd = "Dispatch"}
        ud == {k \in DOMAIN c : c[k].cmd = "SetUserData"}
    IN  IF disp = {} \/ ud = {} \/ Len(m["table"]) # 2 THEN m
        ELSE LET groups == c[CHOOSE k \in disp : TRUE].arg[1]
                 word == c[CHOOSE k \in ud : TRUE].arg[3]
                 views == m["table"]
                 dst == {b \in {"input", "output"} : v[b] = views[1].gpuAddr}
                 src == {b \in {"input", "output"} : v[b] = views[2].gpuAddr}
             IN  IF word # Low32(v["table"]) \/ dst = {} \/ src = {} THEN m
                 ELSE LET d == CHOOSE b \in dst : TRUE
                          f == CHOOSE b \in src : TRUE
                      IN  [m EXCEPT ![d] = KernelCopy(m[f], m[d], groups,
                                                      views[1].range)]

\* checkResult(queue->WaitIdle());
WaitIdle(r) ==
    /\ CmdTransition("wait_idle", "WaitIdle", ptr["queue"], r, "Completed")
    /\ mem' = IF IsErrorResult(r) \/ cmdState # "Submitted" THEN mem
              ELSE Execute(mem, cmds, va)

\* checkResult(output->Map(&data));
MapReadback(r) == MapBuffer("output", "map_readback", << >>, r)

\* The loop printing items[i].
ReadBack ==
    /\ HostStatement("read_back", PlainCall("host_read", ptr["output"], Success))
    /\ readback' = [i \in 1..n_items |-> mem["output"][i]]
    /\ UNCHANGED <<mem, cmds>>

\* output->Unmap(); the result is dropped.
UnmapReadback(r) ==
    /\ Statement("unmap_readback", PlainCall("Unmap", ptr["output"], r))
    /\ mapped' = IF IsErrorResult(r) THEN mapped ELSE mapped \ {"output"}
    /\ UNCHANGED <<allocated, nblocks, ptr, life, harnessVars, exitStatus,
                   cmdState, devState, devCount, devIdx, props,
                   dataVars>>

\* The live local declared last.
LastLive ==
    LET i == CHOOSE j \in DOMAIN Locals :
                /\ life[Locals[j]] = "live"
                /\ \A k \in DOMAIN Locals : life[Locals[k]] = "live" => k <= j
    IN  Locals[i]

AnyLive == \E o \in LocalSet : life[o] = "live"

\* Scope exit, on return or while the stack is unwound: the destructor of the
\* live local declared last.
ScopeExit ==
    /\ pc \in {"return", "unwind"}
    /\ AnyLive
    /\ LET d == UniqueDtor(ptr[LastLive])
       IN  /\ log' = log \o d
           /\ allocated' = HeapAfter(allocated, d)
    /\ life' = [life EXCEPT ![LastLive] = "dead"]
    /\ UNCHANGED <<nblocks, exc, ptr, harnessVars, pc, exitStatus, mapped,
                   cmdState, devState, devCount, devIdx, props,
                   dataVars>>

\* return EXIT_SUCCESS; with every local destroyed.
ExitSuccess ==
    /\ pc = "return"
    /\ ~AnyLive
    /\ pc' = "exited"
    /\ exitStatus' = "success"
    /\ UNCHANGED <<heapVars, harnessVars, mapped, cmdState, devState, devCount,
                   devIdx, props,
                   dataVars>>

\* No handler catches the exception: whether the stack is unwound before
\* std::terminate() is called is implementation-defined.
StartUnwind ==
    /\ pc = "throw"
    /\ pc' = "unwind"
    /\ UNCHANGED <<heapVars, harnessVars, exitStatus, mapped, cmdState, devState,
                   devCount, devIdx, props,
                   dataVars>>

\* std::terminate(): the process ends abnormally.
Terminate ==
    /\ \/ pc = "throw"
       \/ pc = "unwind" /\ ~AnyLive
    /\ pc' = "terminated"
    /\ exitStatus' = "abnormal"
    /\ UNCHANGED <<heapVars, harnessVars, mapped, cmdState, devState, devCount,
                   devIdx, props,
                   dataVars>>

Next ==
    \/ \E r \in ResultCodes : CreatePlatform(r)
    \/ \E r \in ResultCodes, n \in 0..MaxDevices : EnumerateDevices(r, n)
    \/ \E r \in ResultCodes, p \in PropsSet : PrintDevice(r, p)
    \/ \E r \in ResultCodes, p \in PropsSet : GetProperties(r, p)
    \/ \E r \in ResultCodes : CommitSettingsAndInit(r)
    \/ \E r \in ResultCodes : Finalize(r)
    \/ \E sizeRes \in ResultCodes, createRes \in ResultCodes : CreateQueue(sizeRes, createRes)
    \/ \E sizeRes \in ResultCodes, createRes \in ResultCodes : CreateCmdAllocator(sizeRes, createRes)
    \/ \E sizeRes \in ResultCodes, createRes \in ResultCodes : CreateCmdBuffer(sizeRes, createRes)
    \/ \E sizeRes \in ResultCodes, createRes \in ResultCodes : CreatePipeline(sizeRes, createRes)
    \/ \E sizeRes \in ResultCodes, createRes \in ResultCodes, addr \in GpuVas :
          CreateInput(sizeRes, createRes, addr)
    \/ \E sizeRes \in ResultCodes, createRes \in ResultCodes, addr \in GpuVas :
          CreateOutput(sizeRes, createRes, addr)
    \/ \E r \in ResultCodes : MapInput(r)
    \/ \E r \in ResultCodes : MapOutput(r)
    \/ Fill
    \/ \E r \in ResultCodes : UnmapInput(r)
    \/ \E r \in ResultCodes : UnmapOutput(r)
    \/ \E sizeRes \in ResultCodes, createRes \in ResultCodes, addr \in GpuVas :
          CreateTable(sizeRes, createRes, addr)
    \/ \E r \in ResultCodes : MapTable(r)
    \/ WriteTable
    \/ \E r \in ResultCodes : UnmapTable(r)
    \/ \E r \in ResultCodes : Begin(r)
    \/ Record
    \/ \E r \in ResultCodes : End(r)
    \/ \E r \in ResultCodes : Submit(r)
    \/ \E r \in ResultCodes : WaitIdle(r)
    \/ \E r \in ResultCodes : MapReadback(r)
    \/ ReadBack
    \/ \E r \in ResultCodes : UnmapReadback(r)
    \/ ScopeExit
    \/ ExitSuccess
    \/ StartUnwind
    \/ Terminate

Spec == Init /\ [][Next]_vars

----------------------------------------------------------------------------
(* SpecDispatch: the dispatch sizing, for any item count *)

MaxItems == 63

InitDispatch ==
    /\ log = << >>
    /\ allocated = {}
    /\ nblocks = 0
    /\ exc = NoException
    /\ ptr = [o \in LocalSet |-> Null]
    /\ life = [o \in LocalSet |-> "none"]
    /\ lastOp = [op |-> "none", dst |-> 0, src |-> 0]
    /\ nctor = 0
    /\ nmoves = 0
    /\ pc = "record"
    /\ exitStatus = "running"
    /\ mapped = {}
    /\ cmdState = "Recording"
    /\ devState = "finalized"
    /\ devCount = 0
    /\ devIdx = 0
    /\ props = [engineCount |-> 0, queueSupport |-> {}]
    /\ device = Null
    /\ va = [b \in Buffers |-> NoVa]
    /\ mem = [b \in Buffers |-> << >>]
    /\ cmds = << >>
    /\ n_items \in 0..MaxItems
    /\ readback = << >>

\* cmd_buf->CmdDispatch(n_items / 8, 1, 1) for the item count drawn.
RecordDispatch ==
    /\ pc = "record"
    /\ cmds' = cmds \o <<DispatchCmd(n_items)>>
    /\ pc' = "end"
    /\ UNCHANGED <<heapVars, harnessVars, exitStatus, mapped, cmdState, devState,
                   devCount, devIdx, props, device, va, mem, n_items, readback>>

NextDispatch == RecordDispatch

SpecDispatch == InitDispatch /\ [][NextDispatch]_vars

----------------------------------------------------------------------------
(* Reading the log *)

\* Number of calls of `op` on address a so far.
Count(op, a) == Cardinality({i \in DOMAIN log : log[i].op = op /\ log[i].a = a})

\* Positions of the construction calls that failed, and that succeeded.
FailedCreates == {i \in DOMAIN log : log[i].op = "create_fn" /\ IsErrorResult(log[i].r)}
GoodCreates == {i \in DOMAIN log : log[i].op = "create_fn" /\ ~IsErrorResult(log[i].r)}

\* Handles successfully constructed so far.
Handles == {log[i].out : i \in GoodCreates}

\* Every address inside the block at `memory` a handle could have.
BlockAddrs(memory) == {memory + off : off \in Offsets}

NoneLive == \A o \in Slots : life[o] # "live"

----------------------------------------------------------------------------
(* Claims about Unique, checked under SpecUnique *)

\* C1: every successfully constructed handle is destroyed at most once and
\* freed at most once at any time, and once every owner has been destroyed,
\* after any moves between owners, Destroy has been invoked on it exactly
\* once and free on its address exactly once.
C1_TeardownExactlyOnce ==
    /\ \A h \in Handles : Count("Destroy", h) <= 1 /\ Count("free", h) <= 1
    /\ NoneLive => \A h \in Handles : Count("Destroy", h) = 1 /\ Count("free", h) = 1

\* C1 witness: a handle moved twice between owners, every owner destroyed.
C1_Witness ==
    /\ NoneLive
    /\ nmoves >= 2
    /\ Handles # {}
    /\ \E o \in Slots : life[o] = "dead" /\ ptr[o] = Null
    /\ \A h \in Handles : Count("Destroy", h) = 1 /\ Count("free", h) = 1

C3_CreateFailureCleansUp ==
    /\ \A i \in FailedCreates :
          LET memory == log[i].a
          IN  /\ i + 2 <= Len(log)
              /\ log[i + 1] = Ev("free", memory, Success, Null)
              /\ log[i + 2] = Ev("throw", Null, log[i].r, Null)
              /\ Count("free", memory) = 1
              /\ memory \notin allocated
              /\ \A a \in BlockAddrs(memory) :
                    /\ Count("Destroy", a) = 0
                    /\ a # memory => Count("free", a) = 0
                    /\ \A o \in Slots : ptr[o] # a
    /\ (lastOp.op = "Construct" /\ Len(log) \in { i + 2 : i \in FailedCreates })
          => /\ exc = PalError(log[Len(log)].r)
             /\ life[lastOp.dst] = "none"
             /\ ptr[lastOp.dst] = Null

\* C3 witness: a construction failed, a later one succeeded and its owner
\* has been destroyed since.
C3_Witness ==
    /\ FailedCreates # {}
    /\ \E i \in FailedCreates : \E j \in GoodCreates : i < j
    /\ \E o \in Slots : life[o] = "dead" /\ ptr[o] # Null

\* C4: when the sizing operation reports an error, the very next call is the
\* throw of that result code: no malloc and no construction call follow it,
\* so malloc has been called once per sizing call that reported no error.
C4_SizeErrorStops ==
    /\ \A i \in DOMAIN log :
          (log[i].op = "size_fn" /\ IsErrorResult(log[i].r))
             => /\ i + 1 <= Len(log)
                /\ log[i + 1] = Ev("throw", Null, log[i].r, Null)
    /\ Cardinality({i \in DOMAIN log : log[i].op = "malloc"})
          = Cardinality({i \in DOMAIN log : log[i].op = "size_fn" /\ ~IsErrorResult(log[i].r)})
    /\ Cardinality({i \in DOMAIN log : log[i].op = "create_fn"})
          = Cardinality({i \in DOMAIN log : log[i].op = "size_fn" /\ ~IsErrorResult(log[i].r)})

\* C4 witness: the constructor just ran, sizing reported an error, and the
\* heap has never been touched.
C4_Witness ==
    /\ lastOp.op = "Construct"
    /\ Len(log) = 2
    /\ log[1].op = "size_fn" /\ IsErrorResult(log[1].r)
    /\ exc = PalError(log[1].r)
    /\ nblocks = 0

\* C5: a successful constructor stores the address the construction
\* operation returned; a destructor of a non-null owner calls Destroy on the
\* stored address and then free on the same address, and nothing else; a
\* destructor of a null owner calls nothing.
C5_StoresHandleDestroyThenFree ==
    /\ [](\A o \in Slots : (life[o] = "live" /\ ptr[o] # Null) => ptr[o] \in Handles)
    /\ [][(lastOp'.op = "Construct" /\ life'[lastOp'.dst] = "live")
            => /\ log'[Len(log')].op = "create_fn"
               /\ ptr'[lastOp'.dst] = log'[Len(log')].out]_vars
    /\ [][lastOp'.op = "Destruct"
            => log' = log \o (IF ptr[lastOp'.dst] # Null
                              THEN <<Ev("Destroy", ptr[lastOp'.dst], Success, Null),
                                     Ev("free", ptr[lastOp'.dst], Success, Null)>>
                              ELSE << >>)]_vars

\* C5 witness: an owner whose handle lies past the block it allocated has
\* been destroyed, and so has an owner holding null.
C5_Witness ==
    /\ lastOp.op = "Destruct"
    /\ \E o \in Slots : life[o] = "dead" /\ ptr[o] = Null
    /\ \E o \in Slots :
          /\ life[o] = "dead"
          /\ ptr[o] # Null
          /\ \E i \in GoodCreates : log[i].out = ptr[o] /\ log[i].a # ptr[o]
          /\ Count("Destroy", ptr[o]) = 1

----------------------------------------------------------------------------
(* Claims about main(), checked under Spec *)

\* Device-layer calls that report a result code, and all device-layer
\* operations main() invokes (the teardown Destroy of scope exit aside).
ResultOps ==
    {"size_fn", "create_fn", "EnumerateDevices", "GetProperties",
     "CommitSettingsAndInit", "Finalize", "Map", "Unmap", "Begin", "End",
     "Submit", "WaitIdle"}
RecordOps == {"CmdBindPipeline", "CmdSetUserData", "CmdDispatch"}
TransitionOps == {"Begin", "End", "Submit", "WaitIdle"}
DeviceOps == ResultOps \cup RecordOps \cup {"Desc", "CreateUntypedBufferViewSrds"}

\* Positions of the device-layer calls that returned an error result.
ErrorAt == {i \in DOMAIN log : log[i].op \in ResultOps /\ IsErrorResult(log[i].r)}

\* Positions of the calls of `op`, and of those that reported no error.
At(op) == {i \in DOMAIN log : log[i].op = op}
OkAt(op) == {i \in At(op) : ~IsErrorResult(log[i].r)}

\* Whether local o has been torn down, and where in the log its Destroy and
\* its free are.
TornDown(o) == Count("Destroy", ptr[o]) = 1 /\ Count("free", ptr[o]) = 1
DestroyPos(o) == CHOOSE i \in DOMAIN log : log[i].op = "Destroy" /\ log[i].a = ptr[o]
FreePos(o) == CHOOSE i \in DOMAIN log : log[i].op = "free" /\ log[i].a = ptr[o]
TornDownAfter(late, early) ==
    /\ TornDown(late) /\ TornDown(early)
    /\ FreePos(early) < DestroyPos(late)

\* C6 (as stated): once a device-layer call has returned an error result, no
\* further device-layer operation is invoked and the process does not exit
\* with success.
C6_ErrorIsFatal ==
    \A i \in ErrorAt :
        /\ \A j \in DOMAIN log : j > i => log[j].op \notin DeviceOps
        /\ exitStatus # "success"

\* C7: the command buffer moves only along Unrecorded, Recording, Recorded,
\* Submitted, Completed; Begin, End, Submit and WaitIdle are each called at
\* most once; the three recording commands are issued while Recording, after
\* a Begin that reported no error and before End; End follows such a Begin,
\* Submit such an End, WaitIdle such a Submit; and no transition or
\* recording call follows a transition that reported an error.
CmdChain ==
    {<<"Unrecorded", "Recording">>, <<"Recording", "Recorded">>,
     <<"Recorded", "Submitted">>, <<"Submitted", "Completed">>}
C7_CmdBufferStateMachine ==
    /\ [][cmdState' # cmdState => <<cmdState, cmdState'>> \in CmdChain]_vars
    /\ [][\A i \in DOMAIN log' :
             (i > Len(log) /\ log'[i].op \in RecordOps)
                => cmdState = "Recording" /\ cmdState' = "Recording"]_vars
    /\ [](\A op \in TransitionOps \cup RecordOps : Cardinality(At(op)) <= 1)
    /\ [](\A i \in DOMAIN log :
             /\ log[i].op \in RecordOps
                   => /\ \E b \in OkAt("Begin") : b < i
                      /\ \A e \in At("End") : i < e
             /\ log[i].op = "End" => \E b \in OkAt("Begin") : b < i
             /\ log[i].op = "Submit" => \E e \in OkAt("End") : e < i
             /\ log[i].op = "WaitIdle" => \E u \in OkAt("Submit") : u < i
             /\ (log[i].op \in TransitionOps /\ IsErrorResult(log[i].r))
                   => \A j \in DOMAIN log :
                         j > i => log[j].op \notin TransitionOps \cup RecordOps)

\* C7 witness: the command buffer has completed, every call made once.
C7_Witness ==
    /\ cmdState = "Completed"
    /\ \A op \in TransitionOps \cup RecordOps : Cardinality(At(op)) = 1
    /\ ErrorAt = {}

\* C8 (as stated): on a run that reaches program end, the input, output and
\* descriptor-table buffers are each torn down only after the command buffer.
C8_BuffersOutliveCmdBuffer ==
    exitStatus = "success"
       => \A b \in {"input", "output", "table"} : TornDownAfter(b, "cmd_buf")

\* C9: on a run that reaches program end, the command allocator is torn down
\* after the command buffer, and the platform after the queue, the command
\* allocator, the command buffer, the pipeline and the three buffers.
C9_AllocatorAndPlatformLast ==
    exitStatus = "success"
       => /\ TornDownAfter("cmda", "cmd_buf")
          /\ \A o \in LocalSet \ {"platform"} : TornDownAfter("platform", o)

\* C9 witness: main() returned and all eight objects were torn down, the
\* platform's free being the last call of the run.
C9_Witness ==
    /\ exitStatus = "success"
    /\ \A o \in LocalSet : TornDown(o)
    /\ FreePos("platform") = Len(log)

\* C10: before Submit every host write to a buffer has been followed by an
\* Unmap of that buffer that reported no error, with no Map of it since, so
\* no buffer is mapped while the submission is pending; and after Submit the
\* host maps or reads the output buffer only once WaitIdle has reported no
\* error.
C10_UnmapBeforeSubmitReadAfterIdle ==
    /\ \A s \in At("Submit") :
          /\ \A w \in At("host_write") :
                /\ w < s
                /\ \E u \in OkAt("Unmap") :
                      /\ w < u /\ u < s
                      /\ log[u].a = log[w].a
                      /\ \A m \in At("Map") : (log[m].a = log[w].a /\ m < s) => m < u
          /\ \A i \in At("Map") \cup At("host_read") \cup At("host_write") :
                i > s => \E k \in OkAt("WaitIdle") : s < k /\ k < i
    /\ cmdState = "Submitted" => mapped = {}
    /\ \A i \in At("host_read") : \E k \in OkAt("WaitIdle") : k < i

\* C10 witness: the output buffer has been read back after the wait, all
\* three buffers having been written before the submission.
C10_Witness ==
    /\ At("host_read") # {}
    /\ Cardinality(At("host_write")) = 3
    /\ cmdState = "Completed"
    /\ "output" \in mapped

\* The calls that create an object on the device or ask its size.
CreateOps == {"size_fn", "create_fn", "malloc", "QueueCreateInfo"}

\* C11: create_queue, entered once Finalize has reported no error, raises the
\* fatal condition first, with no size query, no construction and no other
\* device operation after it, exactly when the compute engine's engineCount
\* is 0 or its queueSupport lacks the compute-queue bit; otherwise it fills in
\* the create info with engine index 0 and goes on to the size query.
C11_QueueChecksBeforeDevice ==
    \A i \in OkAt("Finalize") :
        i < Len(log) =>
            IF props.engineCount = 0 \/ "Compute" \notin props.queueSupport
            THEN /\ log[i + 1].op = "throw_runtime_error"
                 /\ \A j \in DOMAIN log :
                        j > i => log[j].op \notin DeviceOps \cup CreateOps
                 /\ life["queue"] = "none"
                 /\ exitStatus # "success"
            ELSE /\ log[i + 1] = Ev("QueueCreateInfo", device, Success, 0)
                 /\ i + 1 < Len(log) => log[i + 2].op = "size_fn"

\* C11 witness: a compute engine that exists but cannot run compute queues
\* has made create_queue raise.
C11_Witness ==
    /\ OkAt("Finalize") # {}
    /\ props.engineCount >= 1
    /\ "Compute" \notin props.queueSupport
    /\ log[Len(log)].op = "throw_runtime_error"
    /\ exc = runtime_error

Max(S) == CHOOSE x \in S : \A y \in S : y <= x

C13_TableSlotOrder ==
    At("CreateUntypedBufferViewSrds") # {} =>
        /\ Len(mem["table"]) = 2
        /\ mem["table"][1].gpuAddr = va["output"]
        /\ mem["table"][2].gpuAddr = va["input"]
        /\ \A k \in 1..2 :
              /\ mem["table"][k].range = NItems * SizeofFloat
              /\ mem["table"][k].stride = 0
              /\ mem["table"][k].swizzledFormat = "UndefinedSwizzledFormat"
        /\ Cardinality(At("CreateUntypedBufferViewSrds")) = 1

\* C13 witness: the table has been written on a run where the output buffer,
\* created second, got an address below the input buffer's.
C13_Witness ==
    /\ At("CreateUntypedBufferViewSrds") # {}
    /\ va["output"] = Va(0, 4096)
    /\ va["input"] = Va(1, 8192)
    /\ mem["table"][1].gpuAddr = Va(0, 4096)

\* The Map calls on address a that reported no error, and the Unmap calls on
\* it, before position i of the log.
MapsBefore(a, i) == {m \in OkAt("Map") : log[m].a = a /\ m < i}
UnmapsBefore(a, i) == {u \in At("Unmap") : log[u].a = a /\ u < i}
MappedBefore(a, i) == Cardinality(MapsBefore(a, i)) - Cardinality(UnmapsBefore(a, i))

\* C16 (as stated): every Map of a buffer that reported no error is followed
\* by exactly one Unmap of that buffer before the buffer is destroyed or the
\* run ends, Map is never called on a buffer that is mapped, and Unmap never
\* on one that is not.
C16_MapUnmapPaired ==
    /\ \A m \in At("Map") : MappedBefore(log[m].a, m) = 0
    /\ \A u \in At("Unmap") : MappedBefore(log[u].a, u) = 1
    /\ \A d \in At("Destroy") : MappedBefore(log[d].a, d) = 0
    /\ exitStatus # "running" =>
          \A b \in Buffers : MappedBefore(ptr[b], Len(log) + 1) = 0

\* Positions of the calls made on the selected device to create an object or
\* to ask for its size (the platform's are made before any device is known).
DeviceCreates ==
    {i \in At("size_fn") \cup At("create_fn") \cup At("QueueCreateInfo") :
        \E e \in At("EnumerateDevices") : e < i}

\* C17: CommitSettingsAndInit is called at most once and Finalize at most
\* once; Finalize is called only after a commit that reported no error, on
\* the same device, requesting 1 compute engine; and every size query or
\* construction of a queue, allocator, command buffer, pipeline or GPU memory
\* comes after a Finalize that reported no error.
C17_CommitThenFinalizeOnce ==
    /\ Cardinality(At("CommitSettingsAndInit")) <= 1
    /\ Cardinality(At("Finalize")) <= 1
    /\ \A f \in At("Finalize") :
          /\ log[f].out = 1
          /\ \E c \in OkAt("CommitSettingsAndInit") :
                c < f /\ log[c].a = log[f].a
    /\ \A i \in DeviceCreates : \E f \in OkAt("Finalize") : f < i
    /\ (\E o \in LocalSet \ {"platform"} : life[o] # "none")
          => devState = "finalized"

\* C17 witness: the queue has been created on a device committed and
\* finalized once each.
C17_Witness ==
    /\ Cardinality(OkAt("CommitSettingsAndInit")) = 1
    /\ Cardinality(OkAt("Finalize")) = 1
    /\ life["queue"] = "live"
    /\ DeviceCreates # {}

\* C18: when EnumerateDevices reports no error and a count of zero,
\* select_device raises the fatal condition at once: no GetProperties call is
\* made and no device is selected. When the count is at least one, a device
\* is selected only after the properties of every enumerated device have been
\* read, in enumeration order, and it is the first entry, whatever properties
\* were read.
C18_SelectFirstDevice ==
    \A e \in OkAt("EnumerateDevices") :
        /\ devCount = 0 =>
              /\ log[e + 1].op = "throw_runtime_error"
              /\ At("GetProperties") = {}
              /\ device = Null
              /\ exitStatus # "success"
        /\ device # Null =>
              /\ devCount >= 1
              /\ device = 1
              /\ \A k \in 0..(devCount - 1) :
                    log[e + 1 + k] = Ev("GetProperties", k + 1, Success, Null)

\* C18 witness: two devices were enumerated, both had their properties read,
\* and the first was selected and then used.
C18_Witness ==
    /\ devCount = 2
    /\ device = devices(0)
    /\ Count("GetProperties", devices(1)) = 1
    /\ Count("GetProperties", devices(0)) = 2

----------------------------------------------------------------------------
(* The memory-safety claim about Unique, checked under SpecUnique *)

\* C19 (as stated): every address passed to free was returned by an earlier
\* malloc of a Unique constructor and has not been freed since, and once
\* every owner has been destroyed every block so allocated has been freed
\* exactly once, whatever handle address the construction operation returned.
C19_FreeOnlyOwnBlocks ==
    /\ \A f \in At("free") :
          /\ \E m \in At("malloc") : m < f /\ log[m].out = log[f].a
          /\ \A g \in At("free") : g < f => log[g].a # log[f].a
    /\ NoneLive =>
          \A m \in At("malloc") : Count("free", log[m].out) = 1

----------------------------------------------------------------------------
(* Claims about the dispatch sizing, checked under SpecDispatch *)

\* C14: the recorded dispatch has thread-group count (n_items / 8, 1, 1) with
\* the quotient truncated: the groups cover items 0 .. groups * 8 - 1, which
\* is every item when n_items is a multiple of 8 (2 groups for 16 items) and
\* all but the last n_items mod 8 items otherwise.
C14_DispatchGroups ==
    \A k \in DOMAIN cmds :
        cmds[k].cmd = "Dispatch" =>
            LET groups == cmds[k].arg[1]
            IN  /\ cmds[k].arg = <<groups, 1, 1>>
                /\ groups * 8 + (n_items % 8) = n_items
                /\ n_items % 8 = 0 => groups * 8 = n_items
                /\ n_items = 16 => groups = 2
                /\ \A i \in 0..(n_items - 1) :
                      (i \div 8 < groups) <=> (i < n_items - (n_items % 8))

\* C14 witness: a dispatch recorded for 13 items has one group, leaving the
\* last 5 items to no group.
C14_Witness ==
    /\ n_items = 13
    /\ cmds # << >>
    /\ cmds[Len(cmds)] = [cmd |-> "Dispatch", arg |-> <<1, 1, 1>>]

====
